---- MODULE Spec2Model ----
(***************************************************************************)
(* State-machine model of the Teacher's Aid session orchestrator           *)
(* (src/App.tsx, src/components/ProfileModal.tsx, the Gemini service and   *)
(* the audio helpers).  The React component state is the state of the      *)
(* machine; every event handler and every continuation that runs after an  *)
(* await is one action.  A continuation keeps the values its closure       *)
(* captured when the handler was called (the record kept in flight), while *)
(* a functional update setAppData(prev => ...) reads the latest appData.   *)
(***************************************************************************)
EXTENDS Integers, Sequences, FiniteSets, TLC

\* ------------------------------------------------------------------ bounds

\* Largest number of messages the session holds in the runs of SpecAnalysis,
\* SpecPipeline and SpecAudio.
AnalysisMsgs == 4
PipelineMsgs == 2
AudioMsgs == 2
\* Largest number of profile analyses in flight at once.
MaxAnalyses == 2
\* Largest number of messages the session holds in the runs of SpecAssist.
AssistMsgs == 2
\* Largest reading of the clock, and largest number of subjects listed, in the
\* runs of SpecRoster.
RosterTicks == 2
MaxStudents == 3
\* Largest reading of the clock in the runs of SpecSelection.
SelectionTicks == 1
\* Largest number of PCM samples in a payload in the runs of SpecDecode.
MaxSamples == 2
\* Largest reading of the clock in the runs of SpecPersist.
PersistTicks == 2
\* Largest number of messages in the runs of SpecEdit.
EditMsgs == 3
\* Largest reading of the clock in the runs of SpecGrowth.
GrowthTicks == 4

\* -------------------------------------------------------- program constants

\* analyzeStudentProfile: "if (newMessagesCount < 3) return".
AnalysisThreshold == 3
\* StudentProfile.lastAnalyzedIndex is optional: the absent value.
NoIndex == -1
\* An optional string field that is absent (undefined).
NoValue == "undefined"
\* useState<string | null>(null): the empty playback slot.
NoId == "null"
\* useState<CommunicationOption[] | null>(null): null is the empty tuple and
\* an option array a is the one-element tuple <<a>>.
NoOptions == <<>>
\* The initial tempStudent of ProfileModal.
NoStudent ==
  [id |-> "", name |-> "", language |-> "", age |-> 6, sensitivities |-> "",
   guideBook |-> ""]
\* No payload is being decoded or played.
NoBuffer == [data |-> <<>>, channelData |-> <<>>]
\* The string literals of the source.
PLACEHOLDER == "Adapting..."
SORRY == "Sorry, I couldn't process that."
PARSE_ERROR == "Error processing message."
NO_GUIDE == "Could not generate guide."
VoiceAI == "AI"
VoiceLOCAL == "LOCAL"
STORAGE_KEY_DATA == "teacher_aid_data_v1"
STORAGE_KEY_OLD == "teacher_aid_profile"
\* const INITIAL_DATA
INITIAL_DATA ==
  [teacherName |-> "Teacher", preferredVoice |-> VoiceAI, students |-> <<>>,
   currentStudentId |-> "", chats |-> <<>>]

\* ------------------------------------------------------------- input sets

\* What the user types.
Texts == {"sit down"}
Senders == {"teacher", "student"}
\* What a Gemini call can come back with: it throws (network error, missing
\* API key), or it returns a response text that is a well-formed answer
\* ("ok"), the empty text ("empty", read as "{}"), or text that is not JSON
\* ("garbage").
Outcomes == {"throw", "ok", "empty", "garbage"}
\* generateCommunicationOptions can also come back with a well-formed answer
\* whose option list is not of three ("short").
OptionOutcomes == Outcomes \cup {"short"}

\* ---------------------------------------------------------------- helpers

Student1 ==
  [id |-> "s1", name |-> "Ana", language |-> "Spanish", age |-> 7,
   sensitivities |-> "shy", guideBook |-> "", lastAnalyzedIndex |-> NoIndex]

Student2 ==
  [id |-> "s2", name |-> "Sam", language |-> "English", age |-> 10,
   sensitivities |-> "literal", guideBook |-> "", lastAnalyzedIndex |-> NoIndex]

\* A snapshot the profile editor saved earlier: two students, no messages.
SavedSnapshot ==
  [teacherName |-> "Teacher", preferredVoice |-> VoiceAI,
   students |-> <<Student1, Student2>>, currentStudentId |-> "s1",
   chats |-> [k \in {"s1", "s2"} |-> <<>>]]

StudentIdsOf(data) == {data.students[i].id : i \in DOMAIN data.students}

\* appData.students.find(s => s.id === id): the first match.
FindStudent(data, id) ==
  LET idx == {i \in DOMAIN data.students : data.students[i].id = id}
  IN  data.students[CHOOSE i \in idx : \A j \in idx : i <= j]

\* const currentStudent = appData.students.find(...): is there one.
HasCurrentStudent(data) == data.currentStudentId \in StudentIdsOf(data)

\* prev.chats[id] || []
ChatsOf(data, id) == IF id \in DOMAIN data.chats THEN data.chats[id] ELSE <<>>

\* const messages = currentStudent && appData.chats[id] ? appData.chats[id] : []
CurrentMessages(data) ==
  IF HasCurrentStudent(data) THEN ChatsOf(data, data.currentStudentId) ELSE <<>>

TotalMsgs(data) ==
  LET RECURSIVE Sum(_)
      Sum(S) == IF S = {} THEN 0
                ELSE LET k == CHOOSE x \in S : TRUE
                     IN  Len(data.chats[k]) + Sum(S \ {k})
  IN  Sum(DOMAIN data.chats)

\* { ...prev.chats, [id]: seq }
PutChat(chats, id, seq) ==
  [k \in (DOMAIN chats) \cup {id} |-> IF k = id THEN seq ELSE chats[k]]

\* Date.now(): a reading is never before the previous one, and may equal it.
ClockReadings(t) == {t, t + 1}

\* Date.now().toString()
NewMessageId(t) == ToString(t)

\* ------------------------------------------------------------------ state

VARIABLES
  appData,            \* useState<AppData>: the in-memory Session
  storage,            \* localStorage: the item under each of the two keys
  now,                \* the last reading of Date.now()
  isLoading,          \* useState(false): a send is being processed
  isModalOpen,        \* useState(false): the profile editor is shown
  formData,           \* ProfileModal's draft of the Session
  playingId,          \* useState<string | null>: the playback slot
  generatedOptions,   \* useState<CommunicationOption[] | null>
  pendingIntent,      \* useState<string | null>
  isAnalyzingProfile, \* useState(false): the background-analysis indicator
  crashed,            \* a state updater threw while React rendered
  translating,        \* processDirectTranslation calls awaiting translateText
  assisting,          \* handleSendMessage calls awaiting generateCommunicationOptions
  analyzing,          \* analyzeStudentProfile calls awaiting generateGuideBook
  playing,            \* handlePlayAudio calls awaiting synthesis or playback
  engineCalls,        \* the speech engines the latest handlePlayAudio called
  lastExit,           \* how the latest handlePlayAudio left its try block
  audioBuffer,        \* playGeminiAudio: the payload bytes and their AudioBuffer
  lastMerge,          \* the latest analysis merge: what it wrote and when
  lastChoice,         \* how the latest option set left: selected or cancelled
  optionsFor,         \* the student the displayed options were generated for
  editingStudentId,   \* ProfileModal: the student whose form is shown, or null
  tempStudent         \* ProfileModal: the copy of the student the form edits

vars ==
  <<appData, storage, now, isLoading, isModalOpen, formData, playingId,
    generatedOptions, pendingIntent, isAnalyzingProfile, crashed, translating,
    assisting, analyzing, playing, engineCalls, lastExit, audioBuffer, lastMerge,
    lastChoice, optionsFor, editingStudentId, tempStudent>>

editVars == <<editingStudentId, tempStudent>>
assistVars == <<generatedOptions, pendingIntent, assisting, lastChoice, optionsFor>>
audioVars == <<playingId, playing, engineCalls, lastExit, audioBuffer>>
analysisVars == <<isAnalyzingProfile, analyzing, lastMerge>>

\* What localStorage.getItem gives: null, a text that is not JSON, or the
\* text of a JSON document.
AbsentItem == [text |-> "absent", doc |-> <<>>]
CorruptItem == [text |-> "corrupt", doc |-> <<>>]
JsonItem(doc) == [text |-> "json", doc |-> doc]

\* The properties of a StudentProfile, of a ChatMessage and of an AppData.
StudentFields ==
  {"id", "name", "language", "age", "sensitivities", "guideBook", "lastAnalyzedIndex"}
MessageFields ==
  {"id", "originalText", "translatedText", "culturalNote", "timestamp",
   "isLoadingAudio", "sender", "strategy", "reasoning"}
SettingFields == {"teacherName", "preferredVoice", "currentStudentId"}

\* Is property f of the object undefined: JSON.stringify leaves it out.
IsUndefined(obj, f) ==
  IF f \in {"age", "timestamp", "isLoadingAudio", "students", "chats"} THEN FALSE
  ELSE IF f = "lastAnalyzedIndex" THEN obj[f] = NoIndex
  ELSE obj[f] = NoValue

\* A stringify that also leaves out the empty strings.
StringifyDroppingEmpty(obj) ==
  LET EmptyText(g) ==
        g \in {"name", "sensitivities", "guideBook", "currentStudentId"} /\ obj[g] = ""
  IN  [f \in {g \in DOMAIN obj : ~IsUndefined(obj, g) /\ ~EmptyText(g)} |-> obj[f]]

\* JSON.stringify of one object: its defined properties.
StringifyObject(obj) == [f \in {g \in DOMAIN obj : ~IsUndefined(obj, g)} |-> obj[f]]

\* JSON.stringify(newData)
JsonStringify(data) ==
  LET top == StringifyObject(data)
  IN  JsonItem(
        [f \in DOMAIN top |->
           IF f = "students"
           THEN [i \in DOMAIN data.students |-> StringifyObject(data.students[i])]
           ELSE IF f = "chats"
           THEN [k \in DOMAIN data.chats |->
                   [i \in DOMAIN data.chats[k] |-> StringifyObject(data.chats[k][i])]]
           ELSE top[f]])

\* Reading the properties of a parsed object: a missing one reads undefined.
ReadObject(obj, fields) ==
  [f \in fields |->
     IF f \in DOMAIN obj THEN obj[f]
     ELSE IF f = "lastAnalyzedIndex" THEN NoIndex
     ELSE NoValue]

\* The AppData the program sees in JSON.parse(savedData).
ReadAppData(doc) ==
  [f \in SettingFields \cup {"students", "chats"} |->
     IF f = "students"
     THEN [i \in DOMAIN doc.students |-> ReadObject(doc.students[i], StudentFields)]
     ELSE IF f = "chats"
     THEN [k \in DOMAIN doc.chats |->
             [i \in DOMAIN doc.chats[k] |-> ReadObject(doc.chats[k][i], MessageFields)]]
     ELSE ReadObject(doc, SettingFields)[f]]

\* parsed.x || fallback, for a text property.
TextOr(parsed, f, fallback) ==
  IF f \in DOMAIN parsed /\ parsed[f] # "" THEN parsed[f] ELSE fallback

\* parsed.x || fallback, for a numeric property.
NumberOr(parsed, f, fallback) ==
  IF f \in DOMAIN parsed /\ parsed[f] # 0 THEN parsed[f] ELSE fallback

\* The migration fallback: newData built from the parsed legacy profile.
MigratedData(parsed) ==
  [teacherName |-> TextOr(parsed, "teacherName", "Teacher"),
   preferredVoice |-> TextOr(parsed, "preferredVoice", VoiceAI),
   students |->
     << [id |-> "migrated_student",
         name |-> TextOr(parsed, "childName", "Student"),
         language |-> TextOr(parsed, "childLanguage", "Spanish"),
         age |-> NumberOr(parsed, "childAge", 7),
         sensitivities |-> TextOr(parsed, "sensitivities", ""),
         guideBook |-> NoValue, lastAnalyzedIndex |-> NoIndex] >>,
   currentStudentId |-> "migrated_student",
   chats |-> [k \in {"migrated_student"} |-> <<>>]]

\* A load effect that looks at the legacy profile first.
LoadLegacyFirst(store) ==
  IF store[STORAGE_KEY_OLD].text = "json"
  THEN [appData |-> MigratedData(store[STORAGE_KEY_OLD].doc),
        storage |-> [store EXCEPT ![STORAGE_KEY_DATA] =
                       JsonStringify(MigratedData(store[STORAGE_KEY_OLD].doc))],
        isModalOpen |-> FALSE]
  ELSE IF store[STORAGE_KEY_DATA].text = "json"
  THEN [appData |-> ReadAppData(store[STORAGE_KEY_DATA].doc), storage |-> store,
        isModalOpen |-> FALSE]
  ELSE [appData |-> INITIAL_DATA, storage |-> store, isModalOpen |-> TRUE]

\* The load effect on the items in localStorage: the Session it sets, the
\* items it leaves, and whether it opens the profile editor.
LoadAppData(store) ==
  IF store[STORAGE_KEY_DATA].text = "json"
  THEN [appData |-> ReadAppData(store[STORAGE_KEY_DATA].doc), storage |-> store,
        isModalOpen |-> FALSE]
  ELSE IF store[STORAGE_KEY_OLD].text = "json"
  THEN [appData |-> MigratedData(store[STORAGE_KEY_OLD].doc),
        storage |-> [store EXCEPT ![STORAGE_KEY_DATA] =
                       JsonStringify(MigratedData(store[STORAGE_KEY_OLD].doc))],
        isModalOpen |-> FALSE]
  ELSE [appData |-> INITIAL_DATA, storage |-> store, isModalOpen |-> TRUE]

\* localStorage holding the items current and legacy.
Store(current, legacy) ==
  [k \in {STORAGE_KEY_DATA, STORAGE_KEY_OLD} |->
     IF k = STORAGE_KEY_DATA THEN current ELSE legacy]

\* No analysis has merged yet.
NoMerge == [studentId |-> NoValue, written |-> NoIndex, held |-> NoIndex]

\* The component state the useState calls start with, the Session aside.
FreshState ==
  /\ now = 0
  /\ isLoading = FALSE
  /\ playingId = NoId
  /\ generatedOptions = NoOptions
  /\ pendingIntent = NoValue
  /\ isAnalyzingProfile = FALSE
  /\ crashed = FALSE
  /\ translating = {}
  /\ assisting = {}
  /\ analyzing = <<>>
  /\ playing = {}
  /\ engineCalls = <<>>
  /\ lastExit = "none"
  /\ lastMerge = NoMerge
  /\ lastChoice = "none"
  /\ optionsFor = NoId
  /\ editingStudentId = NoId
  /\ tempStudent = NoStudent

\* The state once the component has mounted with saved, a Session the
\* profile editor wrote, in storage.
InitOn(saved) ==
  /\ storage = LoadAppData(Store(JsonStringify(saved), AbsentItem)).storage
  /\ appData = LoadAppData(Store(JsonStringify(saved), AbsentItem)).appData
  /\ formData = LoadAppData(Store(JsonStringify(saved), AbsentItem)).appData
  /\ isModalOpen = LoadAppData(Store(JsonStringify(saved), AbsentItem)).isModalOpen
  /\ audioBuffer = NoBuffer
  /\ FreshState

Init == InitOn(SavedSnapshot)

\* The page is loaded again: the component state starts over and the load
\* effect runs on what localStorage holds.
Reload ==
  /\ appData' = LoadAppData(storage).appData
  /\ formData' = LoadAppData(storage).appData
  /\ storage' = LoadAppData(storage).storage
  /\ isModalOpen' = LoadAppData(storage).isModalOpen
  /\ now' = now
  /\ isLoading' = FALSE
  /\ playingId' = NoId
  /\ generatedOptions' = NoOptions
  /\ pendingIntent' = NoValue
  /\ isAnalyzingProfile' = FALSE
  /\ crashed' = FALSE
  /\ translating' = {}
  /\ assisting' = {}
  /\ analyzing' = <<>>
  /\ playing' = {}
  /\ engineCalls' = <<>>
  /\ lastExit' = "none"
  /\ audioBuffer' = NoBuffer
  /\ lastMerge' = NoMerge
  /\ lastChoice' = "none"
  /\ optionsFor' = NoId
  /\ editingStudentId' = NoId
  /\ tempStudent' = NoStudent

\* setAppData(next): the new object reaches ProfileModal as its data prop, and
\* its effect on [data, isOpen] resets the draft: setFormData(data).
SetAppData(next) ==
  /\ appData' = next
  /\ formData' = next
  /\ storage' = storage

\* A functional update that maps over prev.chats[id], mapped being the result
\* of the map: with the key gone the updater throws while React renders, and
\* the application is unmounted.
MapChat(id, mapped) ==
  IF id \in DOMAIN appData.chats
  THEN /\ SetAppData([appData EXCEPT !.chats[id] = mapped])
       /\ crashed' = crashed
  ELSE /\ crashed' = TRUE
       /\ UNCHANGED <<appData, formData, storage>>

\* --------------------------------------------------- TranslationPipeline

\* The optimistic message of processDirectTranslation; its two readings of
\* Date.now(), for the id and for the timestamp, are one reading here.
TempMessage(t, text, sender) ==
  [id |-> NewMessageId(t), originalText |-> text, translatedText |-> PLACEHOLDER,
   culturalNote |-> NoValue, timestamp |-> t, isLoadingAudio |-> FALSE,
   sender |-> sender, strategy |-> NoValue, reasoning |-> NoValue]

\* processDirectTranslation up to its await: the optimistic insert.
OptimisticInsert(t, text, sender, studentId) ==
  /\ t >= now
  /\ SetAppData([appData EXCEPT !.chats =
        PutChat(appData.chats, studentId,
                Append(ChatsOf(appData, studentId), TempMessage(t, text, sender)))])
  /\ translating' = translating \cup {[studentId |-> studentId, newMessageId |-> NewMessageId(t)]}
  /\ now' = t

\* translateText: what the call gives for each outcome of the request.
\* JSON.parse of a well-formed answer, of "{}" (no field at all), or the
\* fallback object of its catch block.
TranslateText(outcome) ==
  CASE outcome = "ok" ->
         [threw |-> FALSE, translation |-> "sientate", culturalNote |-> "softened"]
    [] outcome = "empty" ->
         [threw |-> FALSE, translation |-> NoValue, culturalNote |-> NoValue]
    [] outcome = "garbage" ->
         [threw |-> FALSE, translation |-> PARSE_ERROR, culturalNote |-> NoValue]
    [] OTHER ->
         [threw |-> TRUE, translation |-> NoValue, culturalNote |-> NoValue]

\* The patch of the try block and the patch of the catch block.
ResolveMessage(msg, newMessageId, result) ==
  IF msg.id # newMessageId THEN msg
  ELSE IF result.threw THEN [msg EXCEPT !.translatedText = SORRY]
  ELSE [msg EXCEPT !.translatedText = result.translation,
                   !.culturalNote = result.culturalNote]

\* handleSendMessage, FLOW 2 (InputArea.handleSend lets it through only with
\* a non-empty text and !isLoading).
SendDirect(t, text, sender) ==
  /\ ~isLoading
  /\ HasCurrentStudent(appData)
  /\ OptimisticInsert(t, text, sender, appData.currentStudentId)
  /\ isLoading' = TRUE
  /\ crashed' = crashed
  /\ UNCHANGED <<editVars, isModalOpen, assistVars, audioVars, analysisVars>>

\* handleSendMessage with no current student: the alert, then the editor opens.
SendWithoutStudent ==
  /\ ~HasCurrentStudent(appData)
  /\ isModalOpen' = TRUE
  /\ formData' = IF isModalOpen THEN formData ELSE appData
  /\ UNCHANGED <<editVars, appData, storage, now, isLoading, crashed, translating, assistVars,
                 audioVars, analysisVars>>

\* processDirectTranslation after its await, then the caller's
\* setIsLoading(false).
TranslateReturn(req, outcome) ==
  /\ req \in translating
  /\ MapChat(req.studentId,
             [i \in DOMAIN ChatsOf(appData, req.studentId) |->
                ResolveMessage(ChatsOf(appData, req.studentId)[i], req.newMessageId,
                               TranslateText(outcome))])
  /\ translating' = translating \ {req}
  /\ isLoading' = FALSE
  /\ UNCHANGED <<editVars, now, isModalOpen, assistVars, audioVars, analysisVars>>

\* ------------------------------------------------ StrategyAssistPipeline

Option(n) ==
  [id |-> ToString(n), strategy |-> "Strategy" \o ToString(n),
   englishText |-> "Please sit " \o ToString(n),
   translatedText |-> "Sientate " \o ToString(n),
   reasoning |-> "Reason " \o ToString(n)]

\* generateCommunicationOptions: parsed.options || [], and [] from its catch.
GenerateCommunicationOptions(outcome) ==
  CASE outcome = "ok" -> [threw |-> FALSE, options |-> <<Option(1), Option(2), Option(3)>>]
    [] outcome = "short" -> [threw |-> FALSE, options |-> <<Option(1), Option(2)>>]
    [] outcome = "empty" -> [threw |-> FALSE, options |-> <<>>]
    [] outcome = "garbage" -> [threw |-> FALSE, options |-> <<>>]
    [] OTHER -> [threw |-> TRUE, options |-> <<>>]

\* handleSendMessage, FLOW 1, up to its await.
SendAssist(text) ==
  /\ ~isLoading
  /\ HasCurrentStudent(appData)
  /\ isLoading' = TRUE
  /\ assisting' = assisting \cup
       {[text |-> text, sender |-> "teacher", studentId |-> appData.currentStudentId,
         messages |-> CurrentMessages(appData)]}
  /\ UNCHANGED <<editVars, appData, storage, now, isModalOpen, formData, generatedOptions,
                 pendingIntent, lastChoice, optionsFor, crashed, translating, audioVars,
                 analysisVars>>

\* FLOW 1 after its await: the options are shown and the finally block runs.
OptionsReturn(req, outcome) ==
  /\ req \in assisting
  /\ ~GenerateCommunicationOptions(outcome).threw
  /\ assisting' = assisting \ {req}
  /\ generatedOptions' = <<GenerateCommunicationOptions(outcome).options>>
  /\ pendingIntent' = req.text
  /\ optionsFor' = req.studentId
  /\ isLoading' = FALSE
  /\ UNCHANGED <<editVars, appData, storage, now, isModalOpen, formData, lastChoice, crashed,
                 translating, audioVars, analysisVars>>

\* A catch block that abandons the intent.
OptionsThrowGivesUp(req, t) ==
  /\ req \in assisting
  /\ t >= now
  /\ assisting' = assisting \ {req}
  /\ isLoading' = FALSE
  /\ UNCHANGED <<editVars, appData, storage, now, isModalOpen, formData, generatedOptions,
                 pendingIntent, lastChoice, optionsFor, crashed, translating, audioVars,
                 analysisVars>>

\* FLOW 1, the catch block: processDirectTranslation on the captured student;
\* isLoading stays set until that call returns.
OptionsThrow(req, t) ==
  /\ req \in assisting
  /\ assisting' = assisting \ {req}
  /\ OptimisticInsert(t, req.text, req.sender, req.studentId)
  /\ UNCHANGED <<editVars, isLoading, isModalOpen, generatedOptions, pendingIntent, lastChoice,
                 optionsFor,
                 crashed, audioVars, analysisVars>>

\* A message built from the intent the teacher typed.
OptionMessageOfIntent(t, option) ==
  [id |-> NewMessageId(t), originalText |-> pendingIntent,
   translatedText |-> option.translatedText,
   culturalNote |-> option.strategy \o " approach.", timestamp |-> t,
   isLoadingAudio |-> FALSE, sender |-> "teacher", strategy |-> option.strategy,
   reasoning |-> option.reasoning]

\* The message handleOptionSelect builds.
OptionMessage(t, option) ==
  [id |-> NewMessageId(t), originalText |-> option.englishText,
   translatedText |-> option.translatedText,
   culturalNote |-> option.strategy \o " approach.", timestamp |-> t,
   isLoadingAudio |-> FALSE, sender |-> "teacher", strategy |-> option.strategy,
   reasoning |-> option.reasoning]

\* A selection that leaves the option set presented.
OptionSelectKeepsOptions(i, t) ==
  /\ generatedOptions # NoOptions
  /\ i \in DOMAIN generatedOptions[1]
  /\ HasCurrentStudent(appData)
  /\ t >= now
  /\ SetAppData([appData EXCEPT !.chats =
        PutChat(appData.chats, appData.currentStudentId,
                Append(ChatsOf(appData, appData.currentStudentId),
                       [id |-> NewMessageId(t), originalText |-> generatedOptions[1][i].englishText,
                        translatedText |-> generatedOptions[1][i].translatedText,
                        culturalNote |-> generatedOptions[1][i].strategy \o " approach.",
                        timestamp |-> t, isLoadingAudio |-> FALSE, sender |-> "teacher",
                        strategy |-> generatedOptions[1][i].strategy,
                        reasoning |-> generatedOptions[1][i].reasoning]))])
  /\ now' = t
  /\ lastChoice' = "selected"
  /\ optionsFor' = NoId
  /\ UNCHANGED <<editVars, isLoading, isModalOpen, crashed, translating, assisting, audioVars,
                 analysisVars, generatedOptions, pendingIntent>>

\* handleOptionSelect (OptionSelector is rendered while generatedOptions is
\* not null, one button per option).
OptionSelect(i, t) ==
  /\ generatedOptions # NoOptions
  /\ i \in DOMAIN generatedOptions[1]
  /\ HasCurrentStudent(appData)
  /\ t >= now
  /\ SetAppData([appData EXCEPT !.chats =
        PutChat(appData.chats, appData.currentStudentId,
                Append(ChatsOf(appData, appData.currentStudentId),
                       OptionMessage(t, generatedOptions[1][i])))])
  /\ now' = t
  /\ generatedOptions' = NoOptions
  /\ pendingIntent' = NoValue
  /\ lastChoice' = "selected"
  /\ optionsFor' = NoId
  /\ UNCHANGED <<editVars, isLoading, isModalOpen, crashed, translating, assisting, audioVars,
                 analysisVars>>

\* A cancel that also clears the selection.
OptionCancelDropsSelection ==
  /\ generatedOptions # NoOptions
  /\ generatedOptions' = NoOptions
  /\ pendingIntent' = NoValue
  /\ lastChoice' = "cancelled"
  /\ optionsFor' = NoId
  /\ SetAppData([appData EXCEPT !.currentStudentId = ""])
  /\ UNCHANGED <<editVars, now, isLoading, isModalOpen, crashed, translating, assisting,
                 audioVars, analysisVars>>

\* handleOptionCancel
OptionCancel ==
  /\ generatedOptions # NoOptions
  /\ generatedOptions' = NoOptions
  /\ pendingIntent' = NoValue
  /\ lastChoice' = "cancelled"
  /\ optionsFor' = NoId
  /\ UNCHANGED <<editVars, appData, storage, now, isLoading, isModalOpen, formData, crashed,
                 translating, assisting, audioVars, analysisVars>>

\* ----------------------------------------------- ProfileAnalysisScheduler

\* const lastIndex = student.lastAnalyzedIndex || 0
LastIndex(student) ==
  IF student.lastAnalyzedIndex = NoIndex THEN 0 ELSE student.lastAnalyzedIndex

\* A scheduler that waits for more than three new messages.
ShouldAnalyzeOverThree(data, studentId) ==
  /\ studentId \in StudentIdsOf(data)
  /\ Len(ChatsOf(data, studentId)) # 0
  /\ ~(Len(ChatsOf(data, studentId)) - LastIndex(FindStudent(data, studentId))
         <= AnalysisThreshold)

\* analyzeStudentProfile up to its await: does it issue the request.
ShouldAnalyze(data, studentId) ==
  /\ studentId \in StudentIdsOf(data)
  /\ Len(ChatsOf(data, studentId)) # 0
  /\ ~(Len(ChatsOf(data, studentId)) - LastIndex(FindStudent(data, studentId))
         < AnalysisThreshold)

\* What the closure of analyzeStudentProfile keeps across the await.
AnalysisRequest(data, studentId) ==
  [studentId |-> studentId, student |-> FindStudent(data, studentId),
   chats |-> ChatsOf(data, studentId)]

\* handleStudentSwitch (the sidebar lists appData.students).
StudentSwitch(newStudentId) ==
  /\ newStudentId \in StudentIdsOf(appData)
  /\ IF /\ HasCurrentStudent(appData)
        /\ appData.currentStudentId # newStudentId
        /\ ShouldAnalyze(appData, appData.currentStudentId)
     THEN /\ isAnalyzingProfile' = TRUE
          /\ analyzing' = Append(analyzing,
                                 AnalysisRequest(appData, appData.currentStudentId))
          /\ lastMerge' = lastMerge
     ELSE UNCHANGED analysisVars
  /\ SetAppData([appData EXCEPT !.currentStudentId = newStudentId])
  /\ UNCHANGED <<editVars, now, isLoading, isModalOpen, crashed, translating, assistVars,
                 audioVars>>

\* generateGuideBook: JSON.parse of a well-formed answer, of "{}", or the
\* fallback object of its catch block.
GenerateGuideBook(outcome, student) ==
  CASE outcome = "ok" ->
         [threw |-> FALSE, guide |-> "## Guide", updatedSensitivities |-> "shy, visual"]
    [] outcome = "empty" ->
         [threw |-> FALSE, guide |-> NoValue, updatedSensitivities |-> NoValue]
    [] outcome = "garbage" ->
         [threw |-> FALSE, guide |-> NO_GUIDE,
          updatedSensitivities |-> student.sensitivities]
    [] OTHER ->
         [threw |-> TRUE, guide |-> NoValue, updatedSensitivities |-> NoValue]

\* An index read from the session as it is when the analysis completes.
AnalyzedIndexAtCompletion(req, data) == Len(ChatsOf(data, req.studentId))

\* An index one past the messages the closure holds.
AnalyzedIndexPastEnd(req, data) == Len(req.chats) + 1

\* The index analyzeStudentProfile writes back: chats.length of its closure.
AnalyzedIndex(req, data) == Len(req.chats)

\* The merge of the try block.
MergeAnalysis(data, req, result) ==
  [data EXCEPT !.students =
     [i \in DOMAIN data.students |->
        IF data.students[i].id = req.studentId
        THEN [data.students[i] EXCEPT
                !.sensitivities = result.updatedSensitivities,
                !.guideBook = result.guide,
                !.lastAnalyzedIndex = AnalyzedIndex(req, data)]
        ELSE data.students[i]]]

RemoveAt(seq, i) == SubSeq(seq, 1, i - 1) \o SubSeq(seq, i + 1, Len(seq))

\* analyzeStudentProfile after its await, request i of those in flight.
AnalysisReturn(i, outcome) ==
  /\ i \in DOMAIN analyzing
  /\ LET req == analyzing[i]
         result == GenerateGuideBook(outcome, req.student)
     IN  IF result.threw
         THEN UNCHANGED <<appData, formData, storage, lastMerge>>
         ELSE /\ SetAppData(MergeAnalysis(appData, req, result))
              /\ lastMerge' = [studentId |-> req.studentId,
                               written |-> AnalyzedIndex(req, appData),
                               held |-> Len(ChatsOf(appData, req.studentId))]
  /\ analyzing' = RemoveAt(analyzing, i)
  /\ isAnalyzingProfile' = FALSE
  /\ UNCHANGED <<editVars, now, isLoading, isModalOpen, crashed, translating, assistVars,
                 audioVars>>

\* ---------------------------------------------------------- AudioPipeline

\* An array that reads the two bytes as an unsigned integer.
ToUint16(lo, hi) == lo + 256 * hi

\* The signed 16-bit integer an Int16Array reads from two bytes, low byte
\* first.
ToInt16(lo, hi) ==
  IF lo + 256 * hi >= 32768 THEN lo + 256 * hi - 65536 ELSE lo + 256 * hi

\* new Int16Array(data.buffer): a RangeError unless the byte length is even.
Int16ArrayOf(data) ==
  [threw |-> Len(data) % 2 # 0,
   samples |-> [i \in 1..(Len(data) \div 2) |-> ToInt16(data[2 * i - 1], data[2 * i])]]

\* dataInt16[i] / 32768.0, a Float32 that holds the quotient exactly.
Amplitude(sample) == [num |-> sample, den |-> 32768]

\* decodeAudioData with one channel: the channel data of the buffer.
DecodeAudioData(data) ==
  [threw |-> Int16ArrayOf(data).threw,
   channelData |-> [i \in DOMAIN Int16ArrayOf(data).samples |->
                      Amplitude(Int16ArrayOf(data).samples[i])]]

\* The payload of the samples 0, 16384, -16384, 32767, and a payload cut
\* short by a byte.
SamplePayload == <<0, 0, 0, 64, 0, 192, 255, 127>>
OddPayload == <<0, 0, 0>>

\* currentStudent.language.toLowerCase().includes('english')
IsEnglishTarget(language) == language \in {"English", "english"}

\* playLocalAudio: langMap[language.toLowerCase().trim()] || language
LangCode(language) ==
  CASE language \in {"Spanish", "spanish"} -> "es-ES"
    [] language \in {"Japanese", "japanese"} -> "ja-JP"
    [] OTHER -> language

\* A policy branch that does not look at the sender.
UsesRemoteAnySender(msg, data, language) ==
  /\ data.preferredVoice = VoiceAI
  /\ ~IsEnglishTarget(language)

\* handlePlayAudio's policy branch: is remote synthesis requested.
UsesRemote(msg, data, language) ==
  /\ msg.sender = "teacher"
  /\ data.preferredVoice = VoiceAI
  /\ ~IsEnglishTarget(language)

\* The language handlePlayAudio passes to playLocalAudio.
LocalLanguage(msg, language) == IF msg.sender = "teacher" THEN language ELSE "English"

\* A guard that does not look at the playback slot.
PlayRefusedWithoutSlot == ~HasCurrentStudent(appData)

\* "if (playingId || !currentStudent) return"
PlayRefused == playingId # NoId \/ ~HasCurrentStudent(appData)

\* updateMessageLoading(flag) of the call that captured studentId and msgId.
UpdateMessageLoading(studentId, msgId, flag) ==
  MapChat(studentId,
          [i \in DOMAIN ChatsOf(appData, studentId) |->
             IF ChatsOf(appData, studentId)[i].id = msgId
             THEN [ChatsOf(appData, studentId)[i] EXCEPT !.isLoadingAudio = flag]
             ELSE ChatsOf(appData, studentId)[i]])

\* A handler that releases the slot after the try block instead of in a
\* finally block: an exception leaves the slot and the flag as they are.
ReleaseAfterTry(op, exit) ==
  /\ playing' = playing \ {op}
  /\ lastExit' = exit
  /\ IF exit \in {"decodeFault", "synthThrew", "localUnsupported"}
     THEN UNCHANGED <<playingId, appData, formData, storage, crashed>>
     ELSE /\ playingId' = NoId
          /\ UpdateMessageLoading(op.studentId, op.msg.id, FALSE)

\* The finally block: setPlayingId(null); updateMessageLoading(false).
Finally(op, exit) ==
  /\ playingId' = NoId
  /\ UpdateMessageLoading(op.studentId, op.msg.id, FALSE)
  /\ playing' = playing \ {op}
  /\ lastExit' = exit

\* handlePlayAudio up to its first await; message i of those rendered, whose
\* button is disabled while playingId === msg.id || msg.isLoadingAudio.
PlayAudio(i, supported) ==
  /\ i \in DOMAIN CurrentMessages(appData)
  /\ LET msg == CurrentMessages(appData)[i]
         op == [msg |-> msg, studentId |-> appData.currentStudentId,
                language |-> FindStudent(appData, appData.currentStudentId).language,
                pc |-> "start"]
     IN  /\ ~(playingId = msg.id \/ msg.isLoadingAudio)
         /\ IF PlayRefused
            THEN UNCHANGED <<appData, formData, storage, crashed, audioVars>>
            ELSE IF UsesRemote(msg, appData, op.language)
            THEN /\ playingId' = msg.id
                 /\ UpdateMessageLoading(op.studentId, msg.id, TRUE)
                 /\ playing' = playing \cup {[op EXCEPT !.pc = "synth"]}
                 /\ engineCalls' = <<[engine |-> "remote", text |-> msg.translatedText,
                                      lang |-> NoValue]>>
                 /\ lastExit' = "none"
            ELSE IF supported
            THEN /\ playingId' = msg.id
                 /\ playing' = playing \cup {[op EXCEPT !.pc = "local"]}
                 /\ engineCalls' = <<[engine |-> "local", text |-> msg.translatedText,
                                      lang |-> LangCode(LocalLanguage(msg, op.language))]>>
                 /\ lastExit' = "none"
                 /\ UNCHANGED <<appData, formData, storage, crashed>>
            ELSE /\ engineCalls' = <<>>
                 /\ Finally(op, "localUnsupported")
  /\ audioBuffer' = audioBuffer
  /\ UNCHANGED <<editVars, now, isLoading, isModalOpen, translating, assistVars, analysisVars>>

\* What generateSpeech can give: a payload that decodes, a payload that does
\* not, null (no audio in the answer, or the request failed inside its try),
\* or an exception (getAiClient without an API key).
SpeechResults == {"payload", "badPayload", "null", "throw"}

\* A handler that ends the operation whenever no payload came back.
SpeechReturnGivesUp(op, result, supported) ==
  /\ op \in playing
  /\ op.pc = "synth"
  /\ CASE result = "payload" ->
            /\ UpdateMessageLoading(op.studentId, op.msg.id, FALSE)
            /\ playing' = (playing \ {op}) \cup {[op EXCEPT !.pc = "gemini"]}
            /\ engineCalls' = engineCalls
            /\ audioBuffer' =
                 [data |-> SamplePayload,
                  channelData |-> DecodeAudioData(SamplePayload).channelData]
            /\ UNCHANGED <<playingId, lastExit>>
       [] OTHER ->
            /\ engineCalls' = engineCalls
            /\ audioBuffer' = audioBuffer
            /\ Finally(op, "synthThrew")
  /\ UNCHANGED <<editVars, now, isLoading, isModalOpen, translating, assistVars, analysisVars>>

\* handlePlayAudio after "await generateSpeech".
SpeechReturn(op, result, supported) ==
  /\ op \in playing
  /\ op.pc = "synth"
  /\ CASE result = "payload" ->
            /\ UpdateMessageLoading(op.studentId, op.msg.id, FALSE)
            /\ playing' = (playing \ {op}) \cup {[op EXCEPT !.pc = "gemini"]}
            /\ engineCalls' = engineCalls
            /\ audioBuffer' =
                 [data |-> SamplePayload,
                  channelData |-> DecodeAudioData(SamplePayload).channelData]
            /\ UNCHANGED <<playingId, lastExit>>
       [] result = "badPayload" ->
            /\ DecodeAudioData(OddPayload).threw
            /\ engineCalls' = engineCalls
            /\ audioBuffer' = audioBuffer
            /\ Finally(op, "decodeFault")
       [] result = "null" ->
            IF supported
            THEN /\ UpdateMessageLoading(op.studentId, op.msg.id, FALSE)
                 /\ audioBuffer' = audioBuffer
                 /\ engineCalls' = Append(engineCalls,
                      [engine |-> "local", text |-> op.msg.translatedText,
                       lang |-> LangCode(LocalLanguage(op.msg, op.language))])
                 /\ playing' = (playing \ {op}) \cup {[op EXCEPT !.pc = "local"]}
                 /\ UNCHANGED <<playingId, lastExit>>
            ELSE /\ engineCalls' = engineCalls
                 /\ audioBuffer' = audioBuffer
                 /\ Finally(op, "localUnsupported")
       [] OTHER ->
            /\ engineCalls' = engineCalls
            /\ audioBuffer' = audioBuffer
            /\ Finally(op, "synthThrew")
  /\ UNCHANGED <<editVars, now, isLoading, isModalOpen, translating, assistVars, analysisVars>>

\* playGeminiAudio: source.onended resolves the promise.
GeminiEnded(op) ==
  /\ op \in playing
  /\ op.pc = "gemini"
  /\ engineCalls' = engineCalls
  /\ audioBuffer' = NoBuffer
  /\ Finally(op, "playbackEnded")
  /\ UNCHANGED <<editVars, now, isLoading, isModalOpen, translating, assistVars, analysisVars>>

\* playLocalAudio: utterance.onend and utterance.onerror both resolve.
LocalEnded(op, event) ==
  /\ op \in playing
  /\ op.pc = "local"
  /\ engineCalls' = engineCalls
  /\ audioBuffer' = audioBuffer
  /\ Finally(op, IF event = "end" THEN "localEnded" ELSE "localError")
  /\ UNCHANGED <<editVars, now, isLoading, isModalOpen, translating, assistVars, analysisVars>>

\* ---------------------------------------------------------- profile editor

\* setIsModalOpen(true); ProfileModal's effect on [data, isOpen] resets the draft.
OpenModal ==
  /\ ~isModalOpen
  /\ isModalOpen' = TRUE
  /\ formData' = appData
  /\ UNCHANGED <<editVars, appData, storage, now, isLoading, crashed, translating, assistVars,
                 audioVars, analysisVars>>

\* handleVoiceChange
HandleVoiceChange(voice) ==
  /\ isModalOpen
  /\ formData' = [formData EXCEPT !.preferredVoice = voice]
  /\ UNCHANGED <<editVars, appData, storage, now, isLoading, isModalOpen, crashed, translating,
                 assistVars, audioVars, analysisVars>>

\* handleSelectStudent
HandleSelectStudent(id) ==
  /\ isModalOpen
  /\ editingStudentId = NoId
  /\ id \in StudentIdsOf(formData)
  /\ formData' = [formData EXCEPT !.currentStudentId = id]
  /\ UNCHANGED <<editVars, appData, storage, now, isLoading, isModalOpen, crashed, translating,
                 assistVars, audioVars, analysisVars>>

\* Every subject id the state holds: in the Session, in the draft, or in the
\* closure of a call in flight.
IdsInUse ==
  StudentIdsOf(appData) \cup StudentIdsOf(formData) \cup DOMAIN appData.chats
    \cup DOMAIN formData.chats
    \cup {req.studentId : req \in translating} \cup {req.studentId : req \in assisting}
    \cup {analyzing[i].studentId : i \in DOMAIN analyzing}
    \cup {op.studentId : op \in playing}

\* generateId(): Math.random().toString(36).substr(2, 9).
NewStudentIds == {"n1"}

\* startNewStudent, with a name and a language typed in.
NewStudent(id) ==
  [id |-> id, name |-> "Noor", language |-> "Arabic", age |-> 6,
   sensitivities |-> "", guideBook |-> "", lastAnalyzedIndex |-> NoIndex]

\* startNewStudent and saveStudent with editingStudentId === 'new'.
SaveNewStudent(id) ==
  /\ isModalOpen
  /\ editingStudentId = NoId
  /\ id \notin IdsInUse
  /\ formData' =
       [formData EXCEPT
          !.students = Append(@, NewStudent(id)),
          !.chats = PutChat(@, id, <<>>),
          !.currentStudentId = IF @ = "" THEN id ELSE @]
  /\ editingStudentId' = NoId
  /\ tempStudent' = NewStudent(id)
  /\ UNCHANGED <<appData, storage, now, isLoading, isModalOpen, crashed, translating,
                 assistVars, audioVars, analysisVars>>

\* startEditStudent: the form opens on a copy of the student.
StartEditStudent(id) ==
  /\ isModalOpen
  /\ editingStudentId = NoId
  /\ id \in StudentIdsOf(formData)
  /\ editingStudentId' = id
  /\ tempStudent' = FindStudent(formData, id)
  /\ UNCHANGED <<appData, storage, now, isLoading, isModalOpen, formData, crashed,
                 translating, assistVars, audioVars, analysisVars>>

\* handleTempStudentChange on the sensitivities field of the form.
HandleTempStudentChange(value) ==
  /\ isModalOpen
  /\ editingStudentId # NoId
  /\ tempStudent' = [tempStudent EXCEPT !.sensitivities = value]
  /\ UNCHANGED <<appData, storage, now, isLoading, isModalOpen, formData, crashed,
                 translating, assistVars, audioVars, analysisVars, editingStudentId>>

\* cancelEditStudent
CancelEditStudent ==
  /\ isModalOpen
  /\ editingStudentId # NoId
  /\ editingStudentId' = NoId
  /\ UNCHANGED <<appData, storage, now, isLoading, isModalOpen, formData, crashed,
                 translating, assistVars, audioVars, analysisVars, tempStudent>>

\* saveStudent with editingStudentId the id of a student: tempStudent
\* replaces the student of that id in the draft.
SaveStudent ==
  /\ isModalOpen
  /\ editingStudentId # NoId
  /\ tempStudent.name # "" /\ tempStudent.language # ""
  /\ formData' =
       [formData EXCEPT
          !.students = [i \in DOMAIN @ |->
                          IF @[i].id = tempStudent.id THEN tempStudent ELSE @[i]],
          !.currentStudentId = IF @ = "" THEN tempStudent.id ELSE @]
  /\ editingStudentId' = NoId
  /\ UNCHANGED <<appData, storage, now, isLoading, isModalOpen, crashed, translating,
                 assistVars, audioVars, analysisVars, tempStudent>>

\* prev.students.filter(s => s.id !== id)
RemainingStudents(students, id) ==
  LET Keep(s) == s.id # id
  IN  SelectSeq(students, Keep)

\* A deletion that leaves the selection as it was.
ConfirmDeleteKeepsSelection(id) ==
  /\ isModalOpen
  /\ editingStudentId = NoId
  /\ id \in StudentIdsOf(formData)
  /\ formData' =
       [formData EXCEPT
          !.students = RemainingStudents(@, id),
          !.chats = [k \in (DOMAIN @) \ {id} |-> @[k]]]
  /\ UNCHANGED <<editVars, appData, storage, now, isLoading, isModalOpen, crashed, translating,
                 assistVars, audioVars, analysisVars>>

\* confirmDeleteStudent, the onConfirm of its dialog.
ConfirmDeleteStudent(id) ==
  /\ isModalOpen
  /\ editingStudentId = NoId
  /\ id \in StudentIdsOf(formData)
  /\ formData' =
       [formData EXCEPT
          !.students = RemainingStudents(@, id),
          !.chats = [k \in (DOMAIN @) \ {id} |-> @[k]],
          !.currentStudentId =
             IF id # @ THEN @
             ELSE IF Len(RemainingStudents(formData.students, id)) > 0
                  THEN RemainingStudents(formData.students, id)[1].id
                  ELSE ""]
  /\ UNCHANGED <<editVars, appData, storage, now, isLoading, isModalOpen, crashed, translating,
                 assistVars, audioVars, analysisVars>>

\* handleLoadDemo: the demo student (its long texts cut short).
DemoStudent(type, id) ==
  IF type = "neurodivergent"
  THEN [id |-> id, name |-> "Sam", language |-> "English", age |-> 10,
        sensitivities |-> "Autism Spectrum Disorder, Pathological Demand Avoidance (PDA).",
        guideBook |-> "## Communication Style", lastAnalyzedIndex |-> 3]
  ELSE [id |-> id, name |-> "Hiroto", language |-> "Japanese", age |-> 8,
        sensitivities |-> "High anxiety about making public mistakes (Haji).",
        guideBook |-> "## Communication Style", lastAnalyzedIndex |-> 3]

\* One message of a demo history.
DemoMessage(id, t, sender, original, translated, note, strategy) ==
  [id |-> id, originalText |-> original, translatedText |-> translated,
   culturalNote |-> note, timestamp |-> t, isLoadingAudio |-> FALSE,
   sender |-> sender, strategy |-> strategy,
   reasoning |-> IF strategy = NoValue THEN NoValue ELSE "Why " \o strategy]

\* handleLoadDemo: the demo history (its long texts cut short).
DemoChats(type, t) ==
  IF type = "neurodivergent"
  THEN << DemoMessage("msg_nd_1", t - 300000, "teacher", "Sam, stop messing around",
                      "Sam, it is time for math.", NoValue, "Low Demand & Declarative"),
          DemoMessage("msg_nd_2", t - 240000, "student", "No! The schedule says reading!",
                      "I am feeling distressed", "Literal interpretation", NoValue),
          DemoMessage("msg_nd_3", t - 180000, "teacher", "We changed it yesterday",
                      "I remember we updated the schedule board yesterday.", NoValue,
                      "Special Interest Bridging") >>
  ELSE << DemoMessage("msg_1", t - 300000, "teacher", "It is okay to make mistakes, Hiroto.",
                      "Machigai wa manabi no steppu da yo, Hiroto.", NoValue,
                      "Growth Mindset & Reassurance"),
          DemoMessage("msg_2", t - 240000, "student", "Boku wa... dekinai.",
                      "I cannot do it because everyone is watching.",
                      "Expressing social anxiety", NoValue),
          DemoMessage("msg_3", t - 180000, "teacher", "Let's look at this together",
                      "Ato de sensei no tsukue de, issho ni mimashou ne.", NoValue,
                      "Private & Collaborative") >>

DemoTypes == {"esl", "neurodivergent"}

\* confirmLoadDemo's onConfirm: handleLoadDemo(type), then onClose().
HandleLoadDemo(type, t) ==
  /\ isModalOpen
  /\ t >= now
  /\ SetAppData(
       [appData EXCEPT
          !.students = Append(@, DemoStudent(type, "demo_" \o ToString(t))),
          !.chats = PutChat(@, "demo_" \o ToString(t), DemoChats(type, t)),
          !.currentStudentId = "demo_" \o ToString(t),
          !.teacherName = "Ms. Thompson"])
  /\ now' = t
  /\ isModalOpen' = FALSE
  /\ UNCHANGED <<editVars, isLoading, crashed, translating, assistVars, audioVars, analysisVars>>

\* A backup file: does its text parse, does the parsed document hold a
\* truthy students and a truthy chats, and the document as an AppData.
BackupDoc ==
  [parses |-> TRUE, hasStudents |-> TRUE, hasChats |-> TRUE,
   data |-> [SavedSnapshot EXCEPT !.teacherName = "Restored", !.currentStudentId = "s2"]]
GhostSelectionDoc ==
  [parses |-> TRUE, hasStudents |-> TRUE, hasChats |-> TRUE,
   data |-> [SavedSnapshot EXCEPT !.currentStudentId = "ghost"]]
NoChatsDoc ==
  [parses |-> TRUE, hasStudents |-> TRUE, hasChats |-> FALSE,
   data |-> [SavedSnapshot EXCEPT !.teacherName = "Restored"]]
NoStudentsDoc ==
  [parses |-> TRUE, hasStudents |-> FALSE, hasChats |-> TRUE,
   data |-> [SavedSnapshot EXCEPT !.teacherName = "Restored", !.preferredVoice = VoiceLOCAL]]
NotJsonDoc ==
  [parses |-> FALSE, hasStudents |-> FALSE, hasChats |-> FALSE, data |-> SavedSnapshot]
ImportDocs == {BackupDoc, GhostSelectionDoc, NoChatsDoc, NoStudentsDoc, NotJsonDoc}

\* An import that asks for the subject list alone.
HandleImportStudentsOnly(doc) ==
  /\ isModalOpen
  /\ IF doc.parses /\ doc.hasStudents
     THEN SetAppData(doc.data)
     ELSE UNCHANGED <<appData, formData, storage>>
  /\ UNCHANGED <<editVars, now, isLoading, isModalOpen, crashed, translating, assistVars,
                 audioVars, analysisVars>>

\* handleImport, with the reader's onload.
HandleImport(doc) ==
  /\ isModalOpen
  /\ IF doc.parses /\ doc.hasStudents /\ doc.hasChats
     THEN SetAppData(doc.data)
     ELSE UNCHANGED <<appData, formData, storage>>
  /\ UNCHANGED <<editVars, now, isLoading, isModalOpen, crashed, translating, assistVars,
                 audioVars, analysisVars>>

\* saveAppData
SaveAppData(newData) ==
  /\ appData' = newData
  /\ formData' = newData
  /\ storage' = [storage EXCEPT ![STORAGE_KEY_DATA] = JsonStringify(newData)]

\* handleSaveAll: onSave(formData); onClose()
HandleSaveAll ==
  /\ isModalOpen
  /\ SaveAppData(formData)
  /\ isModalOpen' = FALSE
  /\ UNCHANGED <<editVars, now, isLoading, crashed, translating, assistVars, audioVars,
                 analysisVars>>

\* onClose without saving
CloseModal ==
  /\ isModalOpen
  /\ isModalOpen' = FALSE
  /\ formData' = appData
  /\ UNCHANGED <<editVars, appData, storage, now, isLoading, crashed, translating, assistVars,
                 audioVars, analysisVars>>

\* ------------------------------------------------------------ specification

\* The user's and the collaborators' moves, their inputs drawn from the input
\* sets.  Nothing runs once an updater has thrown.
Send ==
  /\ ~crashed
  /\ \E t \in ClockReadings(now), text \in Texts, sender \in Senders :
       SendDirect(t, text, sender)
Translated ==
  /\ ~crashed
  /\ \E req \in translating, outcome \in Outcomes : TranslateReturn(req, outcome)
Assist == ~crashed /\ \E text \in Texts : SendAssist(text)
OptionsShown ==
  /\ ~crashed
  /\ \E req \in assisting, outcome \in OptionOutcomes : OptionsReturn(req, outcome)
OptionsFailed ==
  /\ ~crashed
  /\ \E req \in assisting, t \in ClockReadings(now) : OptionsThrow(req, t)
Select == ~crashed /\ \E i \in 1..3, t \in ClockReadings(now) : OptionSelect(i, t)
Cancel == ~crashed /\ OptionCancel
Switch == ~crashed /\ \E id \in StudentIdsOf(appData) : StudentSwitch(id)
Analyzed ==
  /\ ~crashed
  /\ \E i \in DOMAIN analyzing, outcome \in Outcomes : AnalysisReturn(i, outcome)
Play ==
  /\ ~crashed
  /\ \E i \in DOMAIN CurrentMessages(appData), supported \in BOOLEAN :
       PlayAudio(i, supported)
Synthesized ==
  /\ ~crashed
  /\ \E op \in playing, result \in SpeechResults, supported \in BOOLEAN :
       SpeechReturn(op, result, supported)
PlaybackEnded == ~crashed /\ \E op \in playing : GeminiEnded(op)
Spoken == ~crashed /\ \E op \in playing, event \in {"end", "error"} : LocalEnded(op, event)
Opened == ~crashed /\ OpenModal
VoiceChanged == ~crashed /\ \E voice \in {VoiceAI, VoiceLOCAL} : HandleVoiceChange(voice)
Selected == ~crashed /\ \E id \in StudentIdsOf(formData) : HandleSelectStudent(id)
Saved == ~crashed /\ HandleSaveAll
Added == ~crashed /\ \E id \in NewStudentIds : SaveNewStudent(id)
Deleted == ~crashed /\ \E id \in StudentIdsOf(formData) : ConfirmDeleteStudent(id)
DemoLoaded ==
  /\ ~crashed
  /\ \E type \in DemoTypes, t \in ClockReadings(now) : HandleLoadDemo(type, t)
Imported == ~crashed /\ \E doc \in ImportDocs : HandleImport(doc)
Closed == ~crashed /\ CloseModal
EditStarted == ~crashed /\ \E id \in StudentIdsOf(formData) : StartEditStudent(id)
EditChanged == ~crashed /\ \E value \in {"loud noises"} : HandleTempStudentChange(value)
EditCancelled == ~crashed /\ CancelEditStudent
StudentSaved == ~crashed /\ SaveStudent
Refused == ~crashed /\ SendWithoutStudent
\* A reload also recovers a page that crashed.
Reloaded == crashed \in BOOLEAN /\ Reload

\* Every handler and continuation, with no bound on the run.
Next ==
  \/ Send \/ Translated \/ Assist \/ OptionsShown \/ OptionsFailed \/ Select
  \/ Cancel \/ Switch \/ Analyzed \/ Play \/ Synthesized \/ PlaybackEnded
  \/ Spoken \/ Opened \/ VoiceChanged \/ Selected \/ Saved \/ Closed
  \/ Added \/ Deleted \/ DemoLoaded \/ Imported \/ Refused \/ Reloaded
  \/ EditStarted \/ EditChanged \/ EditCancelled \/ StudentSaved

Spec == Init /\ [][Next]_vars

\* The analysis scheduler beside the sends it counts: messages are sent one
\* clock tick apart and their adaptation succeeds.
AnalysisSend ==
  /\ ~crashed
  /\ TotalMsgs(appData) < AnalysisMsgs
  /\ \E text \in Texts : SendDirect(now + 1, text, "student")
AnalysisTranslated == ~crashed /\ \E req \in translating : TranslateReturn(req, "ok")
AnalysisSwitch == Len(analyzing) < MaxAnalyses /\ Switch

NextAnalysis == AnalysisSend \/ AnalysisTranslated \/ AnalysisSwitch \/ Analyzed

SpecAnalysis == Init /\ [][NextAnalysis]_vars

\* The two message pipelines, with every outcome of the adaptation call and
\* every reading of the clock, beside subject switches.
PipelineSend ==
  /\ ~crashed
  /\ TotalMsgs(appData) < PipelineMsgs
  /\ \E t \in ClockReadings(now), text \in Texts : SendDirect(t, text, "student")
PipelineOptionsShown == ~crashed /\ \E req \in assisting : OptionsReturn(req, "ok")
PipelineOptionsFailed == TotalMsgs(appData) < PipelineMsgs /\ OptionsFailed
PipelineSelect == TotalMsgs(appData) < PipelineMsgs /\ Select

NextPipeline ==
  \/ PipelineSend \/ Translated \/ Assist \/ PipelineOptionsShown
  \/ PipelineOptionsFailed \/ PipelineSelect \/ Cancel \/ AnalysisSwitch

SpecPipeline == Init /\ [][NextPipeline]_vars

\* The audio pipeline beside sends and subject switches, from a snapshot saved
\* with either voice setting.  The collaborators answer: every pending
\* synthesis and playback completes.
AudioSend ==
  /\ ~crashed
  /\ TotalMsgs(appData) < AudioMsgs
  /\ \E text \in Texts, sender \in Senders : SendDirect(now + 1, text, sender)

InitAudio ==
  \E voice \in {VoiceAI, VoiceLOCAL} :
    InitOn([SavedSnapshot EXCEPT !.preferredVoice = voice])

NextAudio ==
  \/ AudioSend \/ AnalysisTranslated \/ AnalysisSwitch \/ Play \/ Synthesized
  \/ PlaybackEnded \/ Spoken

SpecAudio ==
  /\ InitAudio
  /\ [][NextAudio]_vars
  /\ WF_vars(Synthesized)
  /\ WF_vars(PlaybackEnded)
  /\ WF_vars(Spoken)

\* The session store: every kind of mutation of appData beside the one handler
\* that writes localStorage, the profile editor's save.
NextStore ==
  \/ AudioSend \/ AnalysisTranslated \/ AnalysisSwitch \/ Play \/ Synthesized
  \/ PlaybackEnded \/ Spoken \/ Opened \/ VoiceChanged \/ Selected \/ Saved \/ Closed

SpecStore == Init /\ [][NextStore]_vars

\* The strategy-assist pipeline with every outcome of the generation request,
\* beside the student's sends and subject switches; appends are one clock
\* tick apart and the adaptation call succeeds.  The collaborators answer: every
\* pending request completes.
AssistSend ==
  /\ ~crashed
  /\ TotalMsgs(appData) < AssistMsgs
  /\ \E text \in Texts : SendDirect(now + 1, text, "student")
AssistFailed ==
  /\ ~crashed
  /\ TotalMsgs(appData) < AssistMsgs
  /\ \E req \in assisting : OptionsThrow(req, now + 1)
AssistSelect ==
  /\ ~crashed
  /\ TotalMsgs(appData) < AssistMsgs
  /\ \E i \in 1..3 : OptionSelect(i, now + 1)

NextAssist ==
  \/ AssistSend \/ AnalysisTranslated \/ Assist \/ OptionsShown \/ AssistFailed
  \/ AssistSelect \/ Cancel \/ AnalysisSwitch

SpecAssist ==
  /\ Init
  /\ [][NextAssist]_vars
  /\ WF_vars(AnalysisTranslated)
  /\ WF_vars(OptionsShown)

\* The failure path of the strategy-assist pipeline: the runs of SpecAssist in
\* which a presented option set is dismissed, never committed.
NextFallback ==
  \/ AssistSend \/ AnalysisTranslated \/ Assist \/ OptionsShown \/ AssistFailed
  \/ Cancel \/ AnalysisSwitch

SpecFallback ==
  /\ Init
  /\ [][NextFallback]_vars
  /\ WF_vars(AnalysisTranslated)
  /\ WF_vars(OptionsShown)

\* The roster beside the two pipelines: subjects are added and deleted in the
\* editor while messages are sent and calls are in flight.
RosterSend ==
  /\ ~crashed
  /\ now < RosterTicks
  /\ \E text \in Texts : SendDirect(now + 1, text, "student")
RosterFailed ==
  /\ ~crashed
  /\ now < RosterTicks
  /\ \E req \in assisting : OptionsThrow(req, now + 1)
RosterSelect ==
  /\ ~crashed
  /\ now < RosterTicks
  /\ \E i \in 1..3 : OptionSelect(i, now + 1)
RosterAdded == Len(formData.students) < MaxStudents /\ Added

NextRoster ==
  \/ RosterSend \/ AnalysisTranslated \/ Assist \/ PipelineOptionsShown
  \/ RosterFailed \/ RosterSelect \/ Opened \/ RosterAdded \/ Deleted \/ Saved
  \/ Closed \/ Refused

SpecRoster == Init /\ [][NextRoster]_vars

\* The selection: subjects are switched, added, deleted and selected in the
\* editor, a demo subject is loaded and a backup file is restored.
SelectionDemoLoaded ==
  /\ ~crashed
  /\ now < SelectionTicks
  /\ Len(appData.students) < MaxStudents
  /\ \E type \in DemoTypes : HandleLoadDemo(type, now + 1)

NextSelection ==
  \/ AnalysisSwitch \/ Opened \/ RosterAdded \/ Deleted \/ Selected \/ Saved
  \/ Closed \/ SelectionDemoLoaded \/ Imported \/ Refused

SpecSelection == Init /\ [][NextSelection]_vars

\* A Session with a history: the demo subject beside s1, whose sequence holds
\* a message still awaiting its adaptation.
RichSnapshot ==
  [teacherName |-> "Ms. K", preferredVoice |-> VoiceLOCAL,
   students |-> <<Student1, DemoStudent("esl", "demo_0")>>,
   currentStudentId |-> "demo_0",
   chats |-> [k \in {"s1", "demo_0"} |->
                IF k = "s1" THEN <<TempMessage(0, "sit down", "teacher")>>
                ELSE DemoChats("esl", 0)]]

\* What the current-format key can hold when the page is loaded.
SavedItems ==
  {AbsentItem, CorruptItem, JsonStringify(SavedSnapshot), JsonStringify(RichSnapshot),
   JsonStringify(INITIAL_DATA)}

\* The properties of the legacy single-subject profile.
LegacyFields ==
  {"teacherName", "preferredVoice", "childName", "childLanguage", "childAge",
   "sensitivities"}

\* Legacy profiles with every property set, empty strings and 0 among the
\* values, and the same with some properties missing.
LegacyDocs ==
  LET full == [teacherName : {"", "Ms. K"}, preferredVoice : {VoiceAI, VoiceLOCAL},
               childName : {"", "Lia"}, childLanguage : {"", "French"},
               childAge : {0, 9}, sensitivities : {"", "shy"}]
      kept == {LegacyFields, LegacyFields \ {"childAge", "preferredVoice"}, {}}
  IN  {[f \in k |-> d[f]] : d \in full, k \in kept}

\* What the legacy key can hold.
LegacyItems == {AbsentItem, CorruptItem} \cup {JsonItem(d) : d \in LegacyDocs}

\* The first render, before the load effect has run: the Session is
\* INITIAL_DATA whatever localStorage holds.
InitLoad ==
  /\ \E current \in SavedItems, legacy \in LegacyItems : storage = Store(current, legacy)
  /\ appData = INITIAL_DATA
  /\ formData = INITIAL_DATA
  /\ isModalOpen = FALSE
  /\ audioBuffer = NoBuffer
  /\ FreshState

\* Loading and saving: the page is loaded, the Session is edited and saved in
\* the profile editor, and the page is loaded again.
NextLoad ==
  \/ Reloaded \/ Opened \/ VoiceChanged \/ RosterAdded \/ Deleted \/ Saved \/ Closed

SpecLoad == InitLoad /\ [][NextLoad]_vars

\* Playback beside saving and loading: a message is played, the editor is
\* saved while the synthesis request is in flight or after it, and the page is
\* loaded again.
PersistSend ==
  /\ ~crashed
  /\ now < PersistTicks
  /\ \E sender \in Senders : SendDirect(now + 1, "hello", sender)

NextPersist ==
  \/ PersistSend \/ AnalysisTranslated \/ Play \/ Synthesized \/ PlaybackEnded
  \/ Spoken \/ Opened \/ Saved \/ Closed \/ Reloaded

SpecPersist == InitAudio /\ [][NextPersist]_vars

\* Manual profile edits beside the analysis scheduler: a student's form is
\* opened, changed and saved in the editor while messages are sent and analyses
\* are in flight.
EditSend ==
  /\ ~crashed
  /\ TotalMsgs(appData) < EditMsgs
  /\ SendDirect(now + 1, "hello", "student")

NextEdit ==
  \/ EditSend \/ AnalysisTranslated \/ AnalysisSwitch \/ Analyzed \/ Opened
  \/ EditStarted \/ EditChanged \/ EditCancelled \/ StudentSaved \/ Saved \/ Closed

SpecEdit == Init /\ [][NextEdit]_vars

\* The Session as it grows from nothing: the page is first opened with
\* nothing stored, a subject is added and a demo subject is loaded in the
\* editor, messages are sent and analyses merge or fail.  No backup is restored.
InitEmpty == InitOn(INITIAL_DATA)

GrowthSend ==
  /\ ~crashed
  /\ now < GrowthTicks
  /\ SendDirect(now + 1, "hello", "student")
GrowthDemoLoaded ==
  /\ ~crashed
  /\ now < GrowthTicks
  /\ StudentIdsOf(appData) \subseteq NewStudentIds
  /\ \E type \in DemoTypes : HandleLoadDemo(type, now + 1)
GrowthAnalyzed ==
  /\ ~crashed
  /\ \E i \in DOMAIN analyzing, outcome \in {"ok", "throw"} : AnalysisReturn(i, outcome)

NextGrowth ==
  \/ GrowthSend \/ AnalysisTranslated \/ AnalysisSwitch \/ GrowthAnalyzed \/ Opened
  \/ RosterAdded \/ GrowthDemoLoaded \/ Saved \/ Closed

SpecGrowth == InitEmpty /\ [][NextGrowth]_vars

\* The bytes a payload is made of: the low and high bytes of 0, 16384,
\* -16384, 32767 and -32768.
ByteValues == {0, 64, 127, 128, 192, 255}

\* The payloads: those of up to MaxSamples samples, whole or cut short by a
\* byte, and the payload of four samples.  An empty payload never reaches the
\* decoder: generateSpeech returns null for it.
Payloads ==
  {SamplePayload} \cup UNION {[1..n -> ByteValues] : n \in 1..(2 * MaxSamples)}

\* playGeminiAudio has the bytes of a payload in hand.
InitDecode ==
  /\ \E data \in Payloads : audioBuffer = [data |-> data, channelData |-> <<>>]
  /\ storage = Store(JsonStringify(SavedSnapshot), AbsentItem)
  /\ appData = SavedSnapshot
  /\ formData = SavedSnapshot
  /\ isModalOpen = FALSE
  /\ FreshState

\* decodeAudioData on the bytes in hand gives the buffer.
Decoded ==
  /\ audioBuffer.data # <<>>
  /\ audioBuffer.channelData = <<>>
  /\ ~DecodeAudioData(audioBuffer.data).threw
  /\ audioBuffer' =
       [audioBuffer EXCEPT !.channelData = DecodeAudioData(audioBuffer.data).channelData]
  /\ UNCHANGED <<editVars, appData, storage, now, isLoading, isModalOpen, formData, crashed,
                 translating, assistVars, playingId, playing, engineCalls, lastExit,
                 analysisVars>>

\* decodeAudioData throws on the bytes in hand, and playGeminiAudio with it.
DecodeFailed ==
  /\ audioBuffer.data # <<>>
  /\ DecodeAudioData(audioBuffer.data).threw
  /\ audioBuffer' = NoBuffer
  /\ UNCHANGED <<editVars, appData, storage, now, isLoading, isModalOpen, formData, crashed,
                 translating, assistVars, playingId, playing, engineCalls, lastExit,
                 analysisVars>>

\* The decoder alone, on every payload.
NextDecode == Decoded \/ DecodeFailed

SpecDecode == InitDecode /\ [][NextDecode]_vars


\* C1: every mutation of the Session rewrites the persisted snapshot: after
\* any step that changes appData, localStorage holds the new appData.
C1_EveryMutationPersisted ==
  [][appData' # appData => storage'[STORAGE_KEY_DATA] = JsonStringify(appData')]_vars

\* C2: at most one analysis request is outstanding per subject: no two
\* requests in flight are for the same student.
C2_OneAnalysisPerSubject ==
  \A i, j \in DOMAIN analyzing :
    i # j => analyzing[i].studentId # analyzing[j].studentId

\* C3: when an analysis succeeds, the subject's lastAnalyzedIndex becomes the
\* length of the history the request was issued with, whatever the subject's
\* message count is at completion.
C3_IndexIsRequestLength ==
  [][\A i \in DOMAIN analyzing :
       (analyzing' = RemoveAt(analyzing, i) /\ appData' # appData) =>
         \A k \in DOMAIN appData'.students :
           appData'.students[k].id = analyzing[i].studentId =>
             appData'.students[k].lastAnalyzedIndex = Len(analyzing[i].chats)]_vars

\* A merge that wrote the request-time length while the subject already held
\* more messages.
C3_Witness ==
  /\ lastMerge.studentId # NoValue
  /\ lastMerge.written < lastMerge.held
  /\ FindStudent(appData, lastMerge.studentId).lastAnalyzedIndex = lastMerge.written

SlotAgrees ==
  /\ Cardinality(playing) <= 1
  /\ (playingId = NoId) <=> (playing = {})
  /\ \A op \in playing : op.msg.id = playingId

\* C5: at most one message id occupies the playback slot and at most one
\* playback operation is in progress; a play request made while the slot is
\* occupied starts nothing and changes neither the slot nor any message.
C5_SingleSlot ==
  /\ SlotAgrees
  /\ [][/\ SlotAgrees'
        /\ \A i \in DOMAIN CurrentMessages(appData), supported \in BOOLEAN :
             (PlayAudio(i, supported) /\ playingId # NoId) =>
               UNCHANGED <<appData, playingId, playing, engineCalls>>]_vars

\* The slot is occupied while another rendered message has its play button
\* enabled: a request on it is refused.
C5_Witness ==
  /\ playingId # NoId
  /\ playing # {}
  /\ \E i \in DOMAIN CurrentMessages(appData) :
       /\ CurrentMessages(appData)[i].id # playingId
       /\ ~CurrentMessages(appData)[i].isLoadingAudio

\* No message of the session has its audio-loading flag set.
NoneLoading ==
  \A k \in DOMAIN appData.chats :
    \A j \in DOMAIN appData.chats[k] : ~appData.chats[k][j].isLoadingAudio

\* C6: every play invocation that acquires the slot eventually releases it,
\* and the step that releases it leaves the audio-loading flag false, on every
\* exit path.
C6_SlotReleased ==
  /\ (playingId # NoId) ~> (playingId = NoId)
  /\ [][(playingId # NoId /\ playingId' = NoId) => NoneLoading']_vars

\* A remote payload failed to decode, and the slot and the flag are clear.
C6_Witness ==
  /\ lastExit = "decodeFault"
  /\ playingId = NoId
  /\ playing = {}
  /\ NoneLoading

\* C7: a message inserted by the translation pipeline changes its adapted
\* text once, when its adaptation call completes; once it is final, only its
\* audio-loading flag ever changes.
C7_AdaptedTextChangesOnce ==
  [][\A k \in DOMAIN appData.chats :
       \A j \in DOMAIN appData.chats[k] :
         (/\ k \in DOMAIN appData'.chats
          /\ j \in DOMAIN appData'.chats[k]
          /\ appData.chats[k][j].strategy = NoValue) =>
           LET old == appData.chats[k][j]
               new == appData'.chats[k][j]
           IN  /\ (old.translatedText # PLACEHOLDER) =>
                    [new EXCEPT !.isLoadingAudio = old.isLoadingAudio] = old
               /\ (old.translatedText = PLACEHOLDER /\ new.translatedText # PLACEHOLDER)
                    => translating' # translating]_vars

\* C8: when the adaptation fails, by a thrown error or by a malformed
\* response, the message's adapted text becomes the one fixed sentinel, its
\* note stays unset, and nothing propagates out of the pipeline.
C8_OneFailureSentinel ==
  [][\A req \in translating, outcome \in {"throw", "empty", "garbage"} :
       TranslateReturn(req, outcome) =>
         /\ ~crashed'
         /\ \A j \in DOMAIN ChatsOf(appData', req.studentId) :
              LET msg == ChatsOf(appData', req.studentId)[j]
              IN  msg.id = req.newMessageId =>
                    /\ msg.translatedText = SORRY
                    /\ msg.culturalNote = NoValue]_vars

\* C9: a resolution patches exactly one message, the one with the join id in
\* the subject's sequence, and leaves every other message of the session
\* unchanged.
C9_ExactlyOnePatched ==
  [][\A req \in translating :
       translating' = translating \ {req} =>
         LET old == ChatsOf(appData, req.studentId)
             new == ChatsOf(appData', req.studentId)
         IN  /\ Len(new) = Len(old)
             /\ Cardinality({j \in DOMAIN old : new[j] # old[j]}) = 1
             /\ \A j \in DOMAIN old : new[j] # old[j] => old[j].id = req.newMessageId
             /\ \A k \in DOMAIN appData.chats \ {req.studentId} :
                  appData'.chats[k] = appData.chats[k]]_vars

\* C10: each invocation of the translation pipeline appends exactly one
\* message to the subject's sequence, and the new message's id differs from
\* the id of every other message of that sequence.
C10_AppendsFreshId ==
  [][/\ \A req \in translating' \ translating :
          LET old == ChatsOf(appData, req.studentId)
              new == ChatsOf(appData', req.studentId)
          IN  /\ Len(new) = Len(old) + 1
              /\ SubSeq(new, 1, Len(old)) = old
              /\ new[Len(new)].id = req.newMessageId
              /\ \A j \in DOMAIN old : old[j].id # req.newMessageId
     /\ \A req \in translating \ translating' :
          Len(ChatsOf(appData', req.studentId)) = Len(ChatsOf(appData, req.studentId))]_vars

\* The message last appended to the selected subject's sequence.
LastMessage(data) == CurrentMessages(data)[Len(CurrentMessages(data))]

\* C11: a strategy-assist run appends no message when the intent is submitted
\* and when the options arrive, exactly one whole option when one is selected
\* (the set is then gone, so it cannot commit again), none when the set is
\* cancelled, and exactly one through the fallback when the generation fails.
C11_AtMostOneMessagePerRun ==
  [][/\ \A text \in Texts : SendAssist(text) => appData' = appData
     /\ \A req \in assisting, outcome \in OptionOutcomes :
          OptionsReturn(req, outcome) => appData' = appData /\ req \notin assisting'
     /\ \A req \in assisting, t \in ClockReadings(now) :
          OptionsThrow(req, t) =>
            /\ TotalMsgs(appData') = TotalMsgs(appData) + 1
            /\ generatedOptions' = generatedOptions
            /\ req \notin assisting'
     /\ \A i \in 1..3, t \in ClockReadings(now) :
          OptionSelect(i, t) =>
            /\ TotalMsgs(appData') = TotalMsgs(appData) + 1
            /\ generatedOptions' = NoOptions
            /\ \E j \in DOMAIN generatedOptions[1] :
                 /\ LastMessage(appData').originalText = generatedOptions[1][j].englishText
                 /\ LastMessage(appData').translatedText = generatedOptions[1][j].translatedText
                 /\ LastMessage(appData').strategy = generatedOptions[1][j].strategy
                 /\ LastMessage(appData').reasoning = generatedOptions[1][j].reasoning
     /\ OptionCancel => TotalMsgs(appData') = TotalMsgs(appData)
                        /\ generatedOptions' = NoOptions]_vars

\* An option was selected: its message is the last of the sequence and no set
\* is presented any more.
C11_Witness ==
  /\ lastChoice = "selected"
  /\ generatedOptions = NoOptions
  /\ TotalMsgs(appData) = 1
  /\ CurrentMessages(appData) # <<>>
  /\ LastMessage(appData).strategy # NoValue

\* C12: when the generation request fails, the intent text goes through the
\* translation pipeline with the same sender and for the subject it was
\* submitted for, as a direct send would; no option set is presented by the
\* failure, and the busy flag is cleared afterwards.
C12_FailureFallsBack ==
  /\ [][\A req \in assisting, t \in ClockReadings(now) :
          OptionsThrow(req, t) =>
            /\ ChatsOf(appData', req.studentId) =
                 Append(ChatsOf(appData, req.studentId),
                        [id |-> ToString(t), originalText |-> req.text,
                         translatedText |-> PLACEHOLDER, culturalNote |-> NoValue,
                         timestamp |-> t, isLoadingAudio |-> FALSE, sender |-> "teacher",
                         strategy |-> NoValue, reasoning |-> NoValue])
            /\ translating' =
                 translating \cup {[studentId |-> req.studentId, newMessageId |-> ToString(t)]}
            /\ generatedOptions' = generatedOptions]_vars
  /\ isLoading ~> ~isLoading

\* A fallback message of the teacher (no strategy) has been resolved and the
\* busy flag is clear.
C12_Witness ==
  /\ ~isLoading
  /\ translating = {}
  /\ \E k \in DOMAIN appData.chats :
       \E j \in DOMAIN appData.chats[k] :
         /\ appData.chats[k][j].sender = "teacher"
         /\ appData.chats[k][j].strategy = NoValue
         /\ appData.chats[k][j].translatedText # PLACEHOLDER

\* C13: a generation result that is empty or invalid is treated as a failure:
\* no option set is presented and the intent falls back to direct translation.
C13_EmptyResultIsFailure ==
  [][\A req \in assisting, outcome \in {"empty", "garbage"} :
       OptionsReturn(req, outcome) =>
         /\ generatedOptions' = generatedOptions
         /\ TotalMsgs(appData') = TotalMsgs(appData) + 1
         /\ translating' # translating]_vars

\* C14: whenever an option set is presented, it holds exactly three options.
C14_ThreeOptions == generatedOptions # NoOptions => Len(generatedOptions[1]) = 3

\* C15: selecting an option appends exactly one message to the selected
\* subject's sequence: original text the option's English text, adapted text
\* the option's target phrasing, note made from the strategy label, sender the
\* teacher, strategy and reasoning the option's; the option set is cleared.
C15_SelectionCommitsOption ==
  [][\A i \in 1..3, t \in ClockReadings(now) :
       OptionSelect(i, t) =>
         LET option == generatedOptions[1][i]
             old == CurrentMessages(appData)
             new == ChatsOf(appData', appData.currentStudentId)
         IN  /\ Len(new) = Len(old) + 1
             /\ SubSeq(new, 1, Len(old)) = old
             /\ new[Len(new)].originalText = option.englishText
             /\ new[Len(new)].translatedText = option.translatedText
             /\ new[Len(new)].culturalNote = option.strategy \o " approach."
             /\ new[Len(new)].sender = "teacher"
             /\ new[Len(new)].strategy = option.strategy
             /\ new[Len(new)].reasoning = option.reasoning
             /\ \A k \in DOMAIN appData.chats \ {appData.currentStudentId} :
                  appData'.chats[k] = appData.chats[k]
             /\ generatedOptions' = NoOptions
             /\ pendingIntent' = NoValue]_vars

\* The second option of a set was selected and committed.
C15_Witness ==
  /\ lastChoice = "selected"
  /\ generatedOptions = NoOptions
  /\ \E k \in DOMAIN appData.chats :
       \E j \in DOMAIN appData.chats[k] :
         /\ appData.chats[k][j].strategy = "Strategy2"
         /\ appData.chats[k][j].originalText = "Please sit 2"

\* C16: cancelling a presented option set discards it and leaves the Session
\* (students, message sequences, selection, teacher settings) and its
\* persisted snapshot as they were.
C16_CancelLeavesSession ==
  [][OptionCancel =>
       /\ appData' = appData
       /\ storage' = storage
       /\ generatedOptions' = NoOptions
       /\ pendingIntent' = NoValue]_vars

\* A set presented after a message was sent has been cancelled.
C16_Witness ==
  /\ lastChoice = "cancelled"
  /\ generatedOptions = NoOptions
  /\ TotalMsgs(appData) > 0

\* C17: when a profile-analysis request fails, by a collaborator error or by
\* an unparseable response, the subject's last analyzed index, sensitivities
\* and guide book are left as they were.
C17_FailedAnalysisLeavesProfile ==
  [][\A i \in DOMAIN analyzing, outcome \in {"throw", "garbage"} :
       AnalysisReturn(i, outcome) => appData'.students = appData.students]_vars

\* C18: in every reachable state the keys of the message mapping are exactly
\* the ids of the listed subjects, whatever calls were in flight when a
\* subject was added or deleted.
C18_KeysAreSubjectIds == DOMAIN appData.chats = StudentIdsOf(appData)

\* C19: in every reachable state the selected id is empty or the id of a
\* listed subject, after any run of switches, additions, deletions, editor
\* selections, demo loads and imports.
C19_SelectionValid == appData.currentStudentId = "" \/ HasCurrentStudent(appData)

\* The ids of a message sequence, in order.
MessageIds(messages) == [i \in DOMAIN messages |-> messages[i].id]

\* Is sequence a a prefix of sequence b?
IsPrefix(a, b) == Len(a) <= Len(b) /\ SubSeq(b, 1, Len(a)) = a

\* C20: across every step (the restore of a backup file aside) the id
\* sequence of a subject that stays listed is a prefix of its later id
\* sequence, and appends come in the order of the user actions that caused
\* them: the message of a submitted intent is appended to the sequence as it
\* was when the intent was submitted.
C20_AppendOnlyInActionOrder ==
  [][/\ ~Imported =>
          \A id \in StudentIdsOf(appData) \cap StudentIdsOf(appData') :
            IsPrefix(MessageIds(ChatsOf(appData, id)), MessageIds(ChatsOf(appData', id)))
     /\ \A req \in assisting :
          OptionsThrow(req, now + 1) =>
            MessageIds(ChatsOf(appData, req.studentId)) = MessageIds(req.messages)]_vars

\* C21: deleting a subject in the editor removes it from the subject list,
\* the others keeping their order, and removes its message sequence, the
\* other sequences staying as they were; the selection becomes the first
\* remaining subject, or empty, if the deleted subject was the selected one,
\* and is unchanged otherwise.
C21_DeleteCascades ==
  [][\A id \in StudentIdsOf(formData) :
       ConfirmDeleteStudent(id) =>
         /\ \E k \in DOMAIN formData.students :
              /\ formData.students[k].id = id
              /\ formData'.students =
                   SubSeq(formData.students, 1, k - 1) \o
                   SubSeq(formData.students, k + 1, Len(formData.students))
         /\ DOMAIN formData'.chats = (DOMAIN formData.chats) \ {id}
         /\ \A k \in DOMAIN formData'.chats : formData'.chats[k] = formData.chats[k]
         /\ formData'.currentStudentId =
              IF formData.currentStudentId # id THEN formData.currentStudentId
              ELSE IF formData'.students = <<>> THEN ""
              ELSE formData'.students[1].id]_vars

\* The selected subject s1 was deleted in the editor and the selection moved
\* to s2, the first one remaining.
C21_Witness ==
  /\ isModalOpen
  /\ appData.currentStudentId = "s1"
  /\ "s1" \in StudentIdsOf(appData)
  /\ "s1" \notin StudentIdsOf(formData)
  /\ "s1" \notin DOMAIN formData.chats
  /\ formData.currentStudentId = "s2"

\* C22: load tries the sources in order. A parseable current-format snapshot
\* becomes the Session, whatever the legacy key holds, and nothing is written.
\* With that snapshot absent or unparseable and a parseable legacy profile,
\* the Session is a migrated one with one subject and an empty sequence, and
\* it is written under the current key. Otherwise the Session is the empty
\* one and the profile editor opens for the first-run setup.
C22_LoadInOrder ==
  [][Reloaded =>
       LET current == storage[STORAGE_KEY_DATA]
           legacy == storage[STORAGE_KEY_OLD]
       IN  IF current.text = "json"
           THEN /\ appData' = ReadAppData(current.doc)
                /\ storage' = storage
                /\ ~isModalOpen'
           ELSE IF legacy.text = "json"
           THEN /\ Len(appData'.students) = 1
                /\ DOMAIN appData'.chats = {appData'.students[1].id}
                /\ appData'.chats[appData'.students[1].id] = <<>>
                /\ storage'[STORAGE_KEY_DATA] = JsonStringify(appData')
                /\ storage'[STORAGE_KEY_OLD] = legacy
                /\ ~isModalOpen'
           ELSE /\ appData' = INITIAL_DATA
                /\ storage' = storage
                /\ isModalOpen']_vars

\* A legacy profile was migrated: the current key, unparseable or absent
\* before, now holds the migrated Session.
C22_Witness ==
  /\ storage[STORAGE_KEY_OLD].text = "json"
  /\ StudentIdsOf(appData) = {"migrated_student"}
  /\ storage[STORAGE_KEY_DATA] = JsonStringify(appData)
  /\ ~isModalOpen

\* C23: migrating a legacy profile that sets every property gives a Session
\* with exactly one subject, of the fixed id "migrated_student" and selected,
\* whose name, language, age and sensitivities are the legacy childName,
\* childLanguage, childAge and sensitivities, and whose teacher name and voice
\* are the legacy ones, empty strings and 0 included.
C23_MigrationMapsFields ==
  [][(/\ Reloaded
      /\ storage[STORAGE_KEY_DATA].text # "json"
      /\ storage[STORAGE_KEY_OLD].text = "json"
      /\ DOMAIN storage[STORAGE_KEY_OLD].doc = LegacyFields) =>
       LET parsed == storage[STORAGE_KEY_OLD].doc
       IN  /\ Len(appData'.students) = 1
           /\ appData'.students[1].id = "migrated_student"
           /\ appData'.currentStudentId = "migrated_student"
           /\ appData'.students[1].name = parsed.childName
           /\ appData'.students[1].language = parsed.childLanguage
           /\ appData'.students[1].age = parsed.childAge
           /\ appData'.students[1].sensitivities = parsed.sensitivities
           /\ appData'.teacherName = parsed.teacherName
           /\ appData'.preferredVoice = parsed.preferredVoice]_vars

\* C28: save followed by load gives back the Session that was saved: the
\* load effect, run on what save wrote, sets a Session with the same teacher
\* name, voice, subject list, message sequences and selection, and a reload
\* of a page whose Session is the one in storage leaves the Session as it is.
C28_SaveLoadRoundTrip ==
  [][/\ Saved =>
          LET loaded == LoadAppData(storage').appData
          IN  /\ loaded.teacherName = formData.teacherName
              /\ loaded.preferredVoice = formData.preferredVoice
              /\ loaded.students = formData.students
              /\ loaded.chats = formData.chats
              /\ loaded.currentStudentId = formData.currentStudentId
     /\ (Reloaded /\ storage[STORAGE_KEY_DATA] = JsonStringify(appData)) =>
          appData' = appData]_vars

\* The editor saved a Session that lists the new subject n1, whose
\* sensitivities are the empty string and whose analysis index is undefined,
\* and the Session in memory is the one the load effect reads back.
C28_Witness ==
  /\ ~isModalOpen
  /\ "n1" \in StudentIdsOf(appData)
  /\ storage[STORAGE_KEY_DATA] = JsonStringify(appData)
  /\ LoadAppData(storage).appData = appData

\* C24: an import replaces the Session with the imported document if the
\* file parses and holds both a subject list and a message mapping; an
\* import of a file that does not parse, or that lacks either part, leaves the
\* Session in memory exactly as it was.
C24_ImportAllOrNothing ==
  [][\A doc \in ImportDocs :
       HandleImport(doc) =>
         IF doc.parses /\ doc.hasStudents /\ doc.hasChats
         THEN appData' = doc.data
         ELSE appData' = appData /\ formData' = formData]_vars

\* A backup file was restored over the Session.
C24_Witness ==
  /\ isModalOpen
  /\ appData = BackupDoc.data
  /\ storage[STORAGE_KEY_DATA] # JsonStringify(appData)

\* C25: when remote synthesis gave a payload and decoding it or starting its
\* playback failed, the local engine has been invoked with the text that was
\* sent to remote synthesis by the time the operation has ended.
C25_DecodeFaultFallsBack ==
  lastExit = "decodeFault" =>
    \E i, j \in DOMAIN engineCalls :
      /\ engineCalls[i].engine = "remote"
      /\ engineCalls[j].engine = "local"
      /\ engineCalls[j].text = engineCalls[i].text

\* The calls of one play invocation to the engine named.
CallsTo(engine) == {i \in DOMAIN engineCalls : engineCalls[i].engine = engine}

\* C26: when remote synthesis returns null, the local engine is invoked with
\* the text that was sent to remote synthesis, exactly once, and remote
\* synthesis is not requested again within that invocation.
C26_NullFallsBackOnce ==
  /\ [](Cardinality(CallsTo("remote")) <= 1 /\ Cardinality(CallsTo("local")) <= 1)
  /\ [][\A op \in playing :
          SpeechReturn(op, "null", TRUE) =>
            /\ Len(engineCalls') = 2
            /\ engineCalls'[1].engine = "remote"
            /\ engineCalls'[2].engine = "local"
            /\ engineCalls'[2].text = engineCalls'[1].text
            /\ engineCalls'[2].text = op.msg.translatedText]_vars

\* Remote synthesis returned null and the local engine is speaking the text.
C26_Witness ==
  /\ Len(engineCalls) = 2
  /\ engineCalls[1].engine = "remote"
  /\ engineCalls[2].engine = "local"
  /\ \E op \in playing : op.pc = "local" /\ op.msg.translatedText = engineCalls[2].text

\* C27: a play invocation that acquires the slot requests remote synthesis
\* if and only if the message is the teacher's, the preferred voice is the
\* remote one and the subject's language is not English; for a message of the
\* student it drives the local engine, in English, whatever the voice and the
\* subject's language.
C27_RemotePolicy ==
  [][\A i \in DOMAIN CurrentMessages(appData), supported \in BOOLEAN :
       (PlayAudio(i, supported) /\ ~PlayRefused) =>
         LET msg == CurrentMessages(appData)[i]
             language == FindStudent(appData, appData.currentStudentId).language
         IN  /\ (CallsTo("remote")' # {}) <=>
                  (/\ msg.sender = "teacher"
                   /\ appData.preferredVoice = VoiceAI
                   /\ language \notin {"English", "english"})
             /\ (msg.sender = "student" /\ supported) =>
                  engineCalls' = <<[engine |-> "local", text |-> msg.translatedText,
                                    lang |-> "English"]>>]_vars

\* With the remote voice preferred and a Spanish-speaking subject selected, a
\* message of the student is being spoken by the local engine in English.
C27_Witness ==
  /\ appData.preferredVoice = VoiceAI
  /\ HasCurrentStudent(appData)
  /\ FindStudent(appData, appData.currentStudentId).language = "Spanish"
  /\ \E op \in playing :
       /\ op.msg.sender = "student"
       /\ op.pc = "local"
       /\ engineCalls = <<[engine |-> "local", text |-> op.msg.translatedText,
                           lang |-> "English"]>>

\* C29: loading a demo profile adds exactly one subject, with its message
\* sequence, and overwrites nothing: the teacher name, the voice, every
\* subject listed before and every message sequence held before are the same
\* after the load.
C29_DemoOverwritesNothing ==
  [][DemoLoaded =>
       /\ Len(appData'.students) = Len(appData.students) + 1
       /\ SubSeq(appData'.students, 1, Len(appData.students)) = appData.students
       /\ Cardinality(DOMAIN appData'.chats) = Cardinality(DOMAIN appData.chats) + 1
       /\ \A k \in DOMAIN appData.chats :
            k \in DOMAIN appData'.chats /\ appData'.chats[k] = appData.chats[k]
       /\ appData'.preferredVoice = appData.preferredVoice
       /\ appData'.teacherName = appData.teacherName]_vars

\* C30: decoding a payload of 2n bytes as mono 16-bit little-endian signed
\* PCM gives exactly n amplitudes; the i-th is the i-th sample, the signed
\* integer whose low and high bytes are bytes 2i-1 and 2i, over 32768, and
\* lies in [-1, 1]; the samples 0, 16384, -16384, 32767 give 0, 1/2, -1/2 and
\* 32767/32768.
C30_DecodePcm ==
  (audioBuffer.channelData # <<>>) =>
    /\ 2 * Len(audioBuffer.channelData) = Len(audioBuffer.data)
    /\ \A i \in DOMAIN audioBuffer.channelData :
         LET a == audioBuffer.channelData[i]
         IN  /\ a.den = 32768
             /\ a.num \in -32768..32767
             /\ (a.num - audioBuffer.data[2 * i - 1] - 256 * audioBuffer.data[2 * i])
                  % 65536 = 0
             /\ -a.den <= a.num /\ a.num <= a.den
    /\ audioBuffer.data = SamplePayload =>
         /\ [i \in 1..4 |-> audioBuffer.channelData[i].num] = <<0, 16384, -16384, 32767>>
         /\ 2 * audioBuffer.channelData[2].num = audioBuffer.channelData[2].den
         /\ 2 * audioBuffer.channelData[3].num = -audioBuffer.channelData[3].den

\* The payload of the four samples has been decoded.
C30_Witness ==
  /\ audioBuffer.data = SamplePayload
  /\ Len(audioBuffer.channelData) = 4
  /\ audioBuffer.channelData[4] = [num |-> 32767, den |-> 32768]

\* C31: the message committed by selecting an option is appended to the
\* sequence of the subject the options were generated for, the one selected
\* when the intent was submitted, also after a switch to another subject.
C31_CommitsToSubmittingSubject ==
  [][\A i \in 1..3 :
       OptionSelect(i, now + 1) =>
         /\ Len(ChatsOf(appData', optionsFor)) = Len(ChatsOf(appData, optionsFor)) + 1
         /\ \A k \in (DOMAIN appData.chats) \ {optionsFor} :
              ChatsOf(appData', k) = ChatsOf(appData, k)]_vars

\* C32: when a subject has been deleted while a translation or a
\* strategy-generation call for it was in flight, the call's later writes are
\* no-ops: no step faults, and the resolution patch and the fallback insert of
\* a call whose subject is gone leave the Session as it was.
C32_LateWritesAreNoOps ==
  [][/\ ~crashed'
     /\ \A req \in translating :
          (TranslateReturn(req, "ok") /\ req.studentId \notin StudentIdsOf(appData)) =>
            appData' = appData
     /\ \A req \in assisting :
          (OptionsThrow(req, now + 1) /\ req.studentId \notin StudentIdsOf(appData)) =>
            appData' = appData]_vars

\* C33: for every subject, last-analyzed-index never decreases: no step
\* leaves a subject that is kept with a smaller index than it had.
C33_AnalyzedIndexNeverDecreases ==
  [][\A i \in DOMAIN appData.students : \A j \in DOMAIN appData'.students :
       appData'.students[j].id = appData.students[i].id =>
         LastIndex(appData'.students[j]) >= LastIndex(appData.students[i])]_vars

\* C34: the background-analysis indicator is true exactly when at least one
\* profile-analysis request is in flight.
C34_IndicatorTracksRequests == isAnalyzingProfile <=> (analyzing # <<>>)

\* C35: in every reachable state a message has its audio-loading flag true
\* only if the playback slot holds that message's id.
C35_LoadingOnlyInSlot ==
  \A k \in DOMAIN appData.chats :
    \A j \in DOMAIN appData.chats[k] :
      appData.chats[k][j].isLoadingAudio => playingId = appData.chats[k][j].id

\* C36: saving the editor commits the draft on top of the latest Session: the
\* save leaves every message sequence as it was, and leaves the guide and the
\* last-analyzed-index of every subject it keeps as the latest merge set them.
C36_SaveKeepsLatestSession ==
  [][HandleSaveAll =>
       /\ \A k \in (DOMAIN appData.chats) \cap StudentIdsOf(appData') :
            ChatsOf(appData', k) = ChatsOf(appData, k)
       /\ \A id \in StudentIdsOf(appData) \cap StudentIdsOf(appData') :
            /\ FindStudent(appData', id).guideBook = FindStudent(appData, id).guideBook
            /\ FindStudent(appData', id).lastAnalyzedIndex =
                 FindStudent(appData, id).lastAnalyzedIndex]_vars

\* C37: in every state reachable from the empty Session without import,
\* each subject's last-analyzed-index (absent read as 0) is at most the
\* length of that subject's message sequence.
C37_IndexWithinSequence ==
  \A i \in DOMAIN appData.students :
    LastIndex(appData.students[i]) <= Len(ChatsOf(appData, appData.students[i].id))

\* An analysis of a subject added in the editor has merged its index, and a
\* demo subject is in the Session with its preset index.
C37_Witness ==
  /\ \E i \in DOMAIN appData.students :
       /\ appData.students[i].id \in NewStudentIds
       /\ appData.students[i].lastAnalyzedIndex = AnalysisThreshold
  /\ \E i \in DOMAIN appData.students :
       /\ appData.students[i].id \notin NewStudentIds
       /\ appData.students[i].lastAnalyzedIndex = Len(DemoChats("esl", 0))
  /\ lastMerge # NoMerge

====
